---- MODULE Spec2Model ----
(***************************************************************************)
(* airgradient_monitor (src/main.rs): a poll loop that fetches a reading   *)
(* from an AirGradient sensor, derives an AQI from PM2.5 and PM10 and      *)
(* writes a point to InfluxDB through a lazily connected client.           *)
(*                                                                         *)
(* Numbers.  Readings are i32 converted to f64 (`as f64`, exact).  The     *)
(* breakpoint tables have one decimal digit; they are kept here in tenths  *)
(* (35.4 is 354) and a datum is compared as datum*10.  The interpolation   *)
(* is evaluated as an exact fraction num/den and then truncated.  The      *)
(* IEEE-754 double evaluation of main.rs:139-140 gives the same truncated  *)
(* value as the exact fraction for every integer datum for which the       *)
(* function returns (0..325 on PM02, 0..603 on PM10).                      *)
(*                                                                         *)
(* Panics.  compute_one_aqi indexes fixed arrays with a run-time index; an *)
(* index outside 0..6 panics.  A panic inside the future driven by         *)
(* #[tokio::main] unwinds out of main: the process ends.                   *)
(***************************************************************************)
EXTENDS Integers, Sequences, FiniteSets, TLC

VARIABLES
    pc,          \* position of main / do_stuff / write_point
    enable,      \* `influxdb.enable` key of the configuration file
    client,      \* Influx.client : Option<influxdb2::Client>
    constructed, \* number of Client::new calls made so far
    data,        \* do_stuff: the parsed AirGradientData, Option
    fetched_in,  \* iteration in which data was fetched (0: none yet)
    aqi,         \* do_stuff: the value returned by compute_aqi, Option
    point,       \* write_point: the DataPoint that was built, Option
    nwrites,     \* number of client.write calls issued so far
    result,      \* what do_stuff returned to main's match
    cycle,       \* number of the current iteration of main's loop
    prev,        \* what do_stuff returned in the previous iteration
    cycle_writes,\* number of client.write calls issued in this iteration
    tags,        \* cfg.tags : Vec<SettingsPair>
    now,         \* the clock, in seconds
    deadline,    \* instant at which the next interval.tick() completes
    datum,       \* compute_one_aqi: argument datum
    vector,      \* compute_one_aqi: argument vector
    i,           \* compute_one_aqi: local i when the while loop has ended
    res          \* compute_one_aqi: what the call produced

vars == <<pc, enable, client, constructed, data, aqi, point, nwrites, result,
          cycle, prev, cycle_writes, tags, now, deadline, fetched_in,
          datum, vector, i, res>>

\* ------------------------------------------------------------- bounds --
\* iterations of main's loop that are explored
MaxCycles == 3
\* largest datum handed to compute_one_aqi on its own
MaxDatum == 610
\* largest pm02 / pm10 of a reading handed to compute_aqi on its own
MaxPm02 == 327
MaxPm10 == 605
\* readings go down to -NegDatum
NegDatum == 2
\* longest time, in seconds, an HTTP fetch or a database write takes
MaxDur == 3

\* ------------------------------------------------------------ options --
None == <<>>
Some(x) == <<x>>
Unwrap(o) == o[1]

\* a u32 is never negative: -1 stands for "the call panicked"
Panic == -1

\* --------------------------------------------------------- AQI tables --
AQI == <<0, 50, 100, 150, 200, 300, 500>>
\* tenths of a microgram per cubic metre
PM02 == <<0, 90, 354, 554, 1254, 2254, 3254>>
PM10 == <<0, 540, 1540, 2540, 3540, 4240, 6040>>
NOX == <<0, 530, 1000, 3600, 6490, 12490, 20490>>

\* v[k] of a Rust array [f64; 7], k counted from 0
At(v, k) == v[k + 1]
InBounds(k) == k >= 0 /\ k <= 6

\* `x as u32` of the f64 num/den (den > 0): truncation toward zero,
\* saturating at 0 for negative values
as_u32_round(num, den) == IF num < 0 THEN 0 ELSE (2 * num + den) \div (2 * den)
as_u32(num, den) == IF num < 0 THEN 0 ELSE num \div den

\* the condition of the while loop: i <= 6 && datum >= vector[i]
loop_cond_clamped(d, v, k) == k < 6 /\ d * 10 >= At(v, k)
loop_cond(d, v, k) == k <= 6 /\ d * 10 >= At(v, k)

\* the while loop of compute_one_aqi, entered with i = k
RECURSIVE search(_, _, _)
search(d, v, k) == IF loop_cond(d, v, k) THEN search(d, v, k + 1) ELSE k

\* the return expression of compute_one_aqi for an i with i-1 and i in 0..6:
\* ((AQI[i]-AQI[i-1]) / (vector[i]-vector[i-1])) * (datum-vector[i-1]) + AQI[i-1]
interpolate_from_upper(d, v, k) ==
    as_u32((At(AQI, k) - At(AQI, k - 1)) * (d * 10 - At(v, k - 1))
              + At(AQI, k) * (At(v, k) - At(v, k - 1)),
           At(v, k) - At(v, k - 1))
interpolate(d, v, k) ==
    as_u32((At(AQI, k) - At(AQI, k - 1)) * (d * 10 - At(v, k - 1))
              + At(AQI, k - 1) * (At(v, k) - At(v, k - 1)),
           At(v, k) - At(v, k - 1))

max(a, b) == IF a >= b THEN a ELSE b

\* the indices the return expression reads are k and k-1
indices_ok(k) == InBounds(k) /\ InBounds(k - 1)

\* AQI[i] with i = 7 is out of bounds; with i = 0, i-1 underflows usize
\* (overflow panic in a debug build, index usize::MAX in a release build):
\* both builds panic
compute_one_aqi_clamped(d, v) ==
    LET k == max(1, search(d, v, 0))
    IN  IF InBounds(k) THEN interpolate(d, v, k) ELSE Panic
compute_one_aqi(d, v) ==
    LET k == search(d, v, 0)
    IN  IF indices_ok(k) THEN interpolate(d, v, k) ELSE Panic

\* a panic in the first call ends compute_aqi before the second call
compute_aqi_with_nox(r) ==
    LET a == compute_one_aqi(r.pm02, PM02)
        b == compute_one_aqi(r.pm10, PM10)
        c == compute_one_aqi(r.noxRaw, NOX)
    IN  IF a = Panic \/ b = Panic \/ c = Panic THEN Panic
        ELSE max(max(max(0, a), b), c)
compute_aqi(r) ==
    LET a == compute_one_aqi(r.pm02, PM02)
        b == compute_one_aqi(r.pm10, PM10)
    IN  IF a = Panic THEN Panic
        ELSE IF b = Panic THEN Panic
        ELSE max(max(0, a), b)

\* ------------------------------------------------------------- Influx --
\* Influx::connect: Some(_) => Ok(()), None => Client::new, Ok(()).
\* A handle is named by the ordinal of the Client::new call that made it.
Influx_connect_always ==
    /\ client' = Some(constructed + 1)
    /\ constructed' = constructed + 1
Influx_connect_forget ==
    IF client # None
    THEN UNCHANGED <<client, constructed>>
    ELSE /\ client' = client
         /\ constructed' = constructed + 1
Influx_connect ==
    IF client # None
    THEN UNCHANGED <<client, constructed>>
    ELSE /\ client' = Some(constructed + 1)
         /\ constructed' = constructed + 1

\* Influx::disconnect
Influx_disconnect_keep == client' = client
Influx_disconnect == client' = None

\* DataPointBuilder::tag of the influxdb2 crate: the builder keeps its tags
\* in a BTreeMap<String, String> and tag() inserts, so a key that is already
\* there gets the new value.  A tag map is a set of <<key, val>> pairs.
tag(ts, k, v) == {t \in ts : t[1] # k} \cup {<<k, v>>}

\* cfg.tags.iter().fold(builder, |p, tag| p.tag(&tag.key, &tag.val)),
\* from element n of cfg.tags on
RECURSIVE fold_tags(_, _, _)
fold_tags(ts, cfgtags, n) ==
    IF n > Len(cfgtags) THEN ts
    ELSE fold_tags(tag(ts, cfgtags[n][1], cfgtags[n][2]), cfgtags, n + 1)

\* the tags the builder gets from the reading before the fold
builtin_tags(r) ==
    tag(tag(tag({}, "firmware", r.firmware), "model", r.model),
        "serialno", r.serialno)

\* the DataPoint write_point builds: the fields that come from the reading
\* and from aqi, the three tags of the reading, then the configured tags
DataPoint_builtins_last(r, a) ==
    [pm02 |-> r.pm02, pm10 |-> r.pm10, nox |-> r.noxRaw, aqi |-> a,
     tags |-> tag(tag(tag(fold_tags({}, tags, 1), "firmware", r.firmware),
                      "model", r.model), "serialno", r.serialno)]
DataPoint(r, a) ==
    [pm02 |-> r.pm02, pm10 |-> r.pm10, nox |-> r.noxRaw, aqi |-> a,
     tags |-> fold_tags(builtin_tags(r), tags, 1)]

\* ------------------------------------------------------ configuration --
\* airgradient.delaysecs
delaysecs == 2
\* influxdb.tags, each pair <<key, val>>
TagConfigs ==
    { <<>>,
      << <<"site", "a">> >>,
      << <<"model", "x">> >>,
      << <<"site", "a">>, <<"site", "b">> >> }

\* ----------------------------------------------------------- readings --
Pm02Values == {0 - 1, 0, 9, 12, 325, 326}
Pm10Values == {0 - 1, 0, 54, 603, 604}
NoxValues == {0, 700}
Readings ==
    [pm02 : Pm02Values, pm10 : Pm10Values, noxRaw : NoxValues,
     firmware : {"3.1.1"}, model : {"I-9PSL"}, serialno : {"84fce6"}]

\* --------------------------------------------------------------- main --
Init ==
    /\ pc = "main_connect"
    /\ enable \in BOOLEAN
    /\ client = None
    /\ constructed = 0
    /\ data = None
    /\ aqi = None
    /\ point = None
    /\ nwrites = 0
    /\ result = "running"
    /\ cycle = 1
    /\ tags \in TagConfigs
    /\ prev = "none"
    /\ cycle_writes = 0
    /\ now = 0
    /\ deadline = 0
    /\ fetched_in = 0
    /\ datum = 0
    /\ vector = PM02
    /\ i = 0
    /\ res = None

one_vars == <<datum, vector, i, res>>

\* main: influx.connect().await? before the loop, then the interval is made:
\* tokio::time::interval(period) completes its first tick at once
Main_connect ==
    /\ pc = "main_connect"
    /\ Influx_connect
    /\ pc' = "fetch"
    /\ deadline' = now
    /\ UNCHANGED now
    /\ UNCHANGED cycle_writes
    /\ UNCHANGED <<fetched_in, tags, prev, enable, data, aqi, point, nwrites, result, cycle, one_vars>>

\* do_stuff: reqwest::get(request_url).await? fails
Fetch_unreachable ==
    /\ pc = "fetch"
    /\ result' = "Err_get"
    /\ pc' = "match"
    /\ \E d \in 0..MaxDur : now' = now + d
    /\ UNCHANGED deadline
    /\ UNCHANGED cycle_writes
    /\ UNCHANGED <<fetched_in, tags, prev, enable, client, constructed, data, aqi, point, nwrites,
                   cycle, one_vars>>

\* do_stuff: .json::<AirGradientData>().await? fails
Fetch_malformed ==
    /\ pc = "fetch"
    /\ result' = "Err_json"
    /\ pc' = "match"
    /\ \E d \in 0..MaxDur : now' = now + d
    /\ UNCHANGED deadline
    /\ UNCHANGED cycle_writes
    /\ UNCHANGED <<fetched_in, tags, prev, enable, client, constructed, data, aqi, point, nwrites,
                   cycle, one_vars>>

\* do_stuff: the reading was fetched and parsed
Fetch_parsed ==
    /\ pc = "fetch"
    /\ \E r \in Readings : data' = Some(r)
    /\ fetched_in' = cycle
    /\ pc' = "compute"
    /\ \E d \in 0..MaxDur : now' = now + d
    /\ UNCHANGED deadline
    /\ UNCHANGED cycle_writes
    /\ UNCHANGED <<tags, prev, enable, client, constructed, aqi, point, nwrites, result,
                   cycle, one_vars>>

\* do_stuff: let aqi = compute_aqi(&data); a panic ends the process
Compute ==
    /\ pc = "compute"
    /\ LET a == compute_aqi(Unwrap(data))
       IN  IF a = Panic
           THEN pc' = "panicked" /\ aqi' = aqi
           ELSE pc' = "wp_connect" /\ aqi' = Some(a)
    /\ UNCHANGED <<now, deadline>>
    /\ UNCHANGED cycle_writes
    /\ UNCHANGED <<fetched_in, tags, prev, enable, client, constructed, data, point, nwrites, result,
                   cycle, one_vars>>

\* write_point: self.connect().await? (connect never returns Err)
Wp_connect ==
    /\ pc = "wp_connect"
    /\ Influx_connect
    /\ pc' = "wp_build"
    /\ UNCHANGED <<now, deadline>>
    /\ UNCHANGED cycle_writes
    /\ UNCHANGED <<fetched_in, tags, prev, enable, data, aqi, point, nwrites, result, cycle, one_vars>>

\* write_point: self.client.as_mut().unwrap(), then the DataPoint is built
Wp_build_ok ==
    /\ pc = "wp_build"
    /\ IF client = None
       THEN pc' = "panicked" /\ point' = point
       ELSE pc' = "wp_write" /\ point' = Some(DataPoint(Unwrap(data), Unwrap(aqi)))
    /\ UNCHANGED <<now, deadline>>
    /\ UNCHANGED cycle_writes
    /\ UNCHANGED <<fetched_in, tags, prev, enable, client, constructed, data, aqi, nwrites, result,
                   cycle, one_vars>>

\* write_point: .build()? fails; the error goes up through do_stuff
Wp_build_err ==
    /\ pc = "wp_build"
    /\ client # None
    /\ result' = "Err_build"
    /\ pc' = "match"
    /\ data' = None
    /\ aqi' = None
    /\ UNCHANGED <<now, deadline>>
    /\ UNCHANGED cycle_writes
    /\ UNCHANGED <<fetched_in, tags, prev, enable, client, constructed, point, nwrites, cycle, one_vars>>

\* write_point: client.write(..).await succeeds; do_stuff returns Ok(())
Wp_write_ok ==
    /\ pc = "wp_write"
    /\ nwrites' = nwrites + 1
    /\ result' = "Ok"
    /\ pc' = "match"
    /\ data' = None
    /\ aqi' = None
    /\ point' = None
    /\ \E d \in 0..MaxDur : now' = now + d
    /\ UNCHANGED deadline
    /\ cycle_writes' = cycle_writes + 1
    /\ UNCHANGED <<fetched_in, tags, prev, enable, client, constructed, cycle, one_vars>>

\* write_point: client.write(..).await? fails
Wp_write_err_drop ==
    /\ pc = "wp_write"
    /\ nwrites' = nwrites + 1
    /\ result' = "Err_write"
    /\ pc' = "match"
    /\ data' = None
    /\ aqi' = None
    /\ point' = None
    /\ \E d \in 0..MaxDur : now' = now + d
    /\ UNCHANGED deadline
    /\ cycle_writes' = cycle_writes + 1
    /\ UNCHANGED <<fetched_in, tags, prev, enable, constructed, cycle, one_vars>>
    /\ client' = None
Wp_write_err_keep ==
    /\ pc = "wp_write"
    /\ nwrites' = nwrites + 1
    /\ result' = "Err_write"
    /\ pc' = "match"
    /\ UNCHANGED <<data, aqi, point>>
    /\ \E d \in 0..MaxDur : now' = now + d
    /\ UNCHANGED deadline
    /\ cycle_writes' = cycle_writes + 1
    /\ UNCHANGED <<fetched_in, tags, prev, enable, client, constructed, cycle, one_vars>>
Wp_write_err_retry ==
    /\ pc = "wp_write"
    /\ cycle_writes < 2
    /\ nwrites' = nwrites + 1
    /\ cycle_writes' = cycle_writes + 1
    /\ \E d \in 0..MaxDur : now' = now + d
    /\ UNCHANGED <<pc, enable, client, constructed, data, aqi, point, result,
                   cycle, prev, tags, deadline, fetched_in, one_vars>>
Wp_write_err ==
    /\ pc = "wp_write"
    /\ nwrites' = nwrites + 1
    /\ result' = "Err_write"
    /\ pc' = "match"
    /\ data' = None
    /\ aqi' = None
    /\ point' = None
    /\ \E d \in 0..MaxDur : now' = now + d
    /\ UNCHANGED deadline
    /\ cycle_writes' = cycle_writes + 1
    /\ UNCHANGED <<fetched_in, tags, prev, enable, client, constructed, cycle, one_vars>>

\* main: Ok(()) => ()
Match_ok_disconnect ==
    /\ pc = "match"
    /\ result = "Ok"
    /\ pc' = "tick"
    /\ client' = None
    /\ UNCHANGED <<now, deadline>>
    /\ UNCHANGED cycle_writes
    /\ UNCHANGED <<fetched_in, tags, prev, enable, constructed, data, aqi, point, nwrites,
                   result, cycle, one_vars>>
Match_ok ==
    /\ pc = "match"
    /\ result = "Ok"
    /\ pc' = "tick"
    /\ UNCHANGED <<now, deadline>>
    /\ UNCHANGED cycle_writes
    /\ UNCHANGED <<fetched_in, tags, prev, enable, client, constructed, data, aqi, point, nwrites,
                   result, cycle, one_vars>>

\* main: Err(error) => { println!; influx.disconnect(); }
Match_err ==
    /\ pc = "match"
    /\ result # "Ok"
    /\ Influx_disconnect
    /\ pc' = "tick"
    /\ UNCHANGED <<now, deadline>>
    /\ UNCHANGED cycle_writes
    /\ UNCHANGED <<fetched_in, tags, prev, enable, constructed, data, aqi, point, nwrites, result,
                   cycle, one_vars>>

\* main: interval.tick().await, then the next iteration calls do_stuff.
\* tick() completes at the deadline, or at once when the deadline has passed;
\* the next deadline is one period after this one (MissedTickBehavior::Burst,
\* the default)
Tick ==
    /\ pc = "tick"
    /\ cycle < MaxCycles
    /\ cycle' = cycle + 1
    /\ result' = "running"
    /\ prev' = result
    /\ cycle_writes' = 0
    /\ now' = max(now, deadline)
    /\ deadline' = deadline + delaysecs
    /\ pc' = "fetch"
    /\ UNCHANGED <<fetched_in, tags, enable, client, constructed, data, aqi, point, nwrites,
                   one_vars>>

Next ==
    \/ Main_connect
    \/ Fetch_unreachable
    \/ Fetch_malformed
    \/ Fetch_parsed
    \/ Compute
    \/ Wp_connect
    \/ Wp_build_ok
    \/ Wp_build_err
    \/ Wp_write_ok
    \/ Wp_write_err
    \/ Match_ok
    \/ Match_err
    \/ Tick

Spec == Init /\ [][Next]_vars

\* ------------------------------------------- compute_one_aqi, stepwise --
\* one call of compute_one_aqi(datum, vector), statement by statement
main_vars == <<enable, client, constructed, data, aqi, point, nwrites, result,
               cycle, prev, cycle_writes, tags, now, deadline, fetched_in>>

InitOne ==
    /\ pc = "one_while"
    /\ datum \in (0 - NegDatum)..MaxDatum
    /\ vector \in {PM02, PM10}
    /\ i = 0
    /\ res = None
    /\ enable = TRUE
    /\ client = None
    /\ constructed = 0
    /\ data = None
    /\ aqi = None
    /\ point = None
    /\ nwrites = 0
    /\ result = "running"
    /\ cycle = 1
    /\ tags = <<>>
    /\ prev = "none"
    /\ cycle_writes = 0
    /\ now = 0
    /\ deadline = 0
    /\ fetched_in = 0

\* while i <= 6 && datum >= vector[i] { i = i + 1; }
One_loop ==
    /\ pc = "one_while"
    /\ loop_cond(datum, vector, i)
    /\ i' = i + 1
    /\ UNCHANGED <<pc, datum, vector, res, main_vars>>

\* the loop has ended and the return expression reads inside the arrays
One_return ==
    /\ pc = "one_while"
    /\ ~loop_cond(datum, vector, i)
    /\ indices_ok(i)
    /\ res' = Some(interpolate(datum, vector, i))
    /\ pc' = "one_done"
    /\ UNCHANGED <<datum, vector, i, main_vars>>

\* the loop has ended and the return expression reads outside the arrays
One_panic ==
    /\ pc = "one_while"
    /\ ~loop_cond(datum, vector, i)
    /\ ~indices_ok(i)
    /\ pc' = "one_panicked"
    /\ UNCHANGED <<datum, vector, i, res, main_vars>>

NextOne == One_loop \/ One_return \/ One_panic

SpecOne == InitOne /\ [][NextOne]_vars

\* ------------------------------------- compute_aqi over whole readings --
\* one call of do_stuff from a parsed reading to the built point, in the
\* first iteration of the loop, for every reading of the ranges
AllReadings ==
    [pm02 : (0 - NegDatum)..MaxPm02, pm10 : (0 - NegDatum)..MaxPm10,
     noxRaw : NoxValues,
     firmware : {"3.1.1"}, model : {"I-9PSL"}, serialno : {"84fce6"}]

InitAqi ==
    /\ pc = "compute"
    /\ data \in {Some(r) : r \in AllReadings}
    /\ enable = TRUE
    /\ client = Some(1)
    /\ constructed = 1
    /\ aqi = None
    /\ point = None
    /\ nwrites = 0
    /\ result = "running"
    /\ cycle = 1
    /\ tags = <<>>
    /\ prev = "none"
    /\ cycle_writes = 0
    /\ now = 0
    /\ deadline = 0
    /\ fetched_in = 1
    /\ datum = 0
    /\ vector = PM02
    /\ i = 0
    /\ res = None

NextAqi == Compute \/ Wp_connect \/ Wp_build_ok

SpecAqi == InitAqi /\ [][NextAqi]_vars

\* ------------------------------------------------------------- claims --

\* C1: for every datum at or above the top threshold vector[6] the bracket
\* search stops with i = 6: i never exceeds 6, no table is read outside
\* 0..6 and the call does not panic.
C1_SearchStopsAtSix ==
    datum * 10 >= At(vector, 6) => i <= 6 /\ pc # "one_panicked"

\* C2: whatever the outcome of a cycle and whatever the values of a parsed
\* reading, main's loop is not ended; stated at the readings the data model
\* admits (non-negative concentrations).
C2_LoopNeverStops ==
    (data # None /\ Unwrap(data).pm02 >= 0 /\ Unwrap(data).pm10 >= 0)
        => pc # "panicked"

\* the bracket and the value of the specification, written as it words them
SmallestIndex(d, v) ==
    CHOOSE k \in 1..6 :
        /\ d * 10 < At(v, k)
        /\ \A j \in 1..(k - 1) : ~(d * 10 < At(v, j))
Interpolated(d, v) ==
    LET k == SmallestIndex(d, v)
    IN  At(AQI, k - 1)
          + ((At(AQI, k) - At(AQI, k - 1)) * (d * 10 - At(v, k - 1)))
                \div (At(v, k) - At(v, k - 1))

\* C3: for every integer datum with 0 <= datum < vector[6] the call returns
\* AQI[i-1] + (AQI[i]-AQI[i-1]) / (vector[i]-vector[i-1]) * (datum-vector[i-1])
\* truncated toward zero, i the smallest index in 1..6 with datum < vector[i];
\* PM2.5 = 12 gives 55.
C3_InterpolationTruncated ==
    (0 <= datum /\ datum * 10 < At(vector, 6)) =>
        /\ pc # "one_panicked"
        /\ pc = "one_done" =>
              /\ i = SmallestIndex(datum, vector)
              /\ res = Some(Interpolated(datum, vector))
              /\ (vector = PM02 /\ datum = 12) => res = Some(55)
C3_Witness ==
    pc = "one_done" /\ vector = PM02 /\ datum = 12 /\ i = 2 /\ res = Some(55)

\* C4: the value compute_aqi returns is the maximum of the PM2.5 sub-index
\* of pm02 and the PM10 sub-index of pm10; noxRaw has no part in it.
C4_MaxOfSubIndices ==
    aqi # None =>
        LET a == compute_one_aqi(Unwrap(data).pm02, PM02)
            b == compute_one_aqi(Unwrap(data).pm10, PM10)
        IN  /\ Unwrap(aqi) \in {a, b}
            /\ Unwrap(aqi) >= a
            /\ Unwrap(aqi) >= b
C4_Witness ==
    /\ aqi = Some(100)
    /\ data # None
    /\ Unwrap(data).pm02 = 9
    /\ Unwrap(data).pm10 = 154
    /\ Unwrap(data).noxRaw = 700

\* C5: a datum equal to a breakpoint vector[k], k in 0..5, maps to AQI[k]:
\* 0 and 9 on PM2.5 give 0 and 50; 0, 54, 154, 254, 354, 424 on PM10 give
\* 0, 50, 100, 150, 200, 300.
C5_BreakpointsExact ==
    \A k \in 0..5 :
        datum * 10 = At(vector, k) =>
            /\ pc # "one_panicked"
            /\ pc = "one_done" => res = Some(At(AQI, k))
C5_Witness ==
    pc = "one_done" /\ vector = PM10 /\ datum = 424 /\ res = Some(300)

\* C6: for c1 <= c2 both from vector[5] upward, compute_one_aqi(c1) and
\* compute_one_aqi(c2) are values and the first is at most the second
\* (c2 is the datum of the call that has ended, c1 any smaller one).
C6_TopBracketMonotone ==
    (datum * 10 >= At(vector, 5) /\ pc \in {"one_done", "one_panicked"}) =>
        /\ pc = "one_done"
        /\ \A c1 \in 0..datum :
              c1 * 10 >= At(vector, 5) =>
                  /\ compute_one_aqi(c1, vector) # Panic
                  /\ compute_one_aqi(c1, vector) <= Unwrap(res)

\* C7: the index compute_aqi produces for a reading with non-negative pm02
\* and pm10, and the aqi field of the point built from it, lie in 0..500.
C7_IndexInRange ==
    (data # None /\ Unwrap(data).pm02 >= 0 /\ Unwrap(data).pm10 >= 0) =>
        /\ aqi # None => Unwrap(aqi) \in 0..500
        /\ point # None =>
              Unwrap(point).aqi \in 0..500 /\ Unwrap(point).aqi = Unwrap(aqi)
C7_Witness ==
    /\ point # None
    /\ Unwrap(data).pm02 = 325
    /\ Unwrap(data).pm10 = 0
    /\ Unwrap(point).aqi = 499

\* a step that is a call of Influx::connect
ConnectStep == pc \in {"main_connect", "wp_connect"} /\ pc' # pc

\* C8: connect() on a Writer that holds a handle succeeds, constructs no
\* handle and keeps the handle it has; a handle is constructed only by a
\* connect() that finds none.
C8_ConnectIdempotent ==
    [][/\ (ConnectStep /\ client # None) =>
              /\ client' = client
              /\ constructed' = constructed
              /\ pc' \notin {"match", "panicked"}
       /\ constructed' # constructed =>
              /\ ConnectStep
              /\ client = None
              /\ constructed' = constructed + 1
              /\ client' = Some(constructed')]_vars
C8_Witness ==
    pc = "wp_build" /\ cycle = 2 /\ client = Some(1) /\ constructed = 1

\* C9: disconnect() leaves the Writer without a handle whatever it held; a
\* handle then comes back only through connect(), and the write_point that
\* follows constructs a handle never used before, before it issues the write.
C9_DisconnectThenFreshHandle ==
    [][/\ (pc = "match" /\ result # "Ok" /\ pc' # pc) => client' = None
       /\ (client = None /\ client' # None) => ConnectStep
       /\ (pc = "wp_connect" /\ client = None /\ pc' # pc) =>
              /\ client' = Some(constructed + 1)
              /\ constructed' = constructed + 1
              /\ nwrites' = nwrites
       /\ nwrites' # nwrites =>
              client # None /\ Unwrap(client) = constructed]_vars
C9_Witness ==
    pc = "match" /\ result = "Ok" /\ nwrites = 1 /\ client = Some(2)

\* C10: with enable = false in the configuration, connect() and
\* write_point() construct no handle and issue no write, in any cycle.
C10_DisabledWritesNothing ==
    ~enable => client = None /\ constructed = 0 /\ nwrites = 0

\* C11: for a reading whose pm02 or pm10 is negative compute_aqi returns no
\* index (it panics): no aqi exists, no point is built from the reading and
\* none is written.
C11_NegativeFailsLoudly ==
    (data # None /\ (Unwrap(data).pm02 < 0 \/ Unwrap(data).pm10 < 0)) =>
        /\ aqi = None
        /\ point = None
        /\ pc \in {"compute", "panicked"}
C11_Witness ==
    /\ pc = "panicked"
    /\ data # None
    /\ Unwrap(data).pm02 = 0
    /\ Unwrap(data).pm10 = 0 - 1

\* C12: the next cycle starts no earlier than delaysecs after the previous
\* cycle finished processing: the step from the tick to the next fetch ends
\* at least delaysecs after the instant the cycle's processing ended.
C12_FixedDelayAfterCompletion ==
    [][(pc = "tick" /\ pc' = "fetch") => now' >= now + delaysecs]_vars

\* the keys of cfg.tags and the value of the last pair with key k
ConfiguredKeys == {tags[n][1] : n \in 1..Len(tags)}
LastConfigured(k) ==
    LET n == CHOOSE m \in 1..Len(tags) :
                 /\ tags[m][1] = k
                 /\ \A j \in (m + 1)..Len(tags) : tags[j][1] # k
    IN  tags[n][2]

\* C13: the tag keys of a point that is written are firmware, model,
\* serialno and the configured keys, each once; a configured key carries
\* the value of its last configured pair, also when it is a built-in key,
\* and the other built-in keys carry the values of the reading.
C13_TagSet ==
    (pc = "wp_write" /\ point # None) =>
        LET ts == Unwrap(point).tags
            r == Unwrap(data)
        IN  /\ {t[1] : t \in ts} =
                   {"firmware", "model", "serialno"} \cup ConfiguredKeys
            /\ \A t1, t2 \in ts : t1[1] = t2[1] => t1 = t2
            /\ \A t \in ts :
                  t[2] = IF t[1] \in ConfiguredKeys THEN LastConfigured(t[1])
                         ELSE IF t[1] = "firmware" THEN r.firmware
                         ELSE IF t[1] = "model" THEN r.model
                         ELSE r.serialno
C13_Witness ==
    /\ pc = "wp_write"
    /\ tags = << <<"model", "x">> >>
    /\ Unwrap(point).tags =
           {<<"firmware", "3.1.1">>, <<"model", "x">>, <<"serialno", "84fce6">>}

\* C14: a write is issued, and the handle unwrapped, only while the Writer
\* holds a handle: write_point is past its connect() only with a handle.
C14_WriteOnlyWithHandle ==
    pc \in {"wp_build", "wp_write"} => client # None
C14_Witness ==
    pc = "wp_write" /\ cycle = 2 /\ prev = "Err_get" /\ client = Some(2)

\* C15: a write_point that fails in the point build or in the database write
\* hands the error to its caller and leaves the handle as it was, present;
\* a handle is dropped only by main's error branch.
C15_FailedWriteKeepsHandle ==
    [][/\ (pc \in {"wp_build", "wp_write"} /\ pc' = "match" /\ result' # "Ok") =>
              /\ result' \in {"Err_build", "Err_write"}
              /\ client # None
              /\ client' = client
       /\ (client # None /\ client' = None) =>
              pc = "match" /\ result # "Ok" /\ pc' = "tick"]_vars
C15_Witness ==
    pc = "match" /\ result = "Err_write" /\ client # None

\* C16: when a cycle starts the Writer holds a handle exactly when the
\* cycle is the first or the previous cycle returned Ok; a cycle that failed
\* in the fetch or the parse has dropped the handle too.
C16_ConnectedIffPreviousOk ==
    pc = "fetch" => ((client # None) <=> (cycle = 1 \/ prev = "Ok"))
C16_Witness ==
    /\ pc = "fetch"
    /\ cycle = 2
    /\ prev = "Err_json"
    /\ client = None
    /\ constructed = 1
    /\ nwrites = 0

\* C17: in a cycle the write comes after the fetch and compute_aqi, at most
\* one write is issued, none when the fetch, the parse or the build failed,
\* and the next cycle begins only when do_stuff has returned.
C17_OneWritePerCycleInOrder ==
    /\ [](/\ cycle_writes <= 1
          /\ result \in {"Err_get", "Err_json", "Err_build"} => cycle_writes = 0
          /\ pc \in {"fetch", "compute", "wp_connect", "wp_build", "wp_write"}
                 => cycle_writes = 0)
    /\ [][/\ cycle_writes' > cycle_writes =>
                 /\ pc = "wp_write"
                 /\ data # None
                 /\ aqi = Some(compute_aqi(Unwrap(data)))
                 /\ point # None
          /\ (aqi = None /\ aqi' # None) => (pc = "compute" /\ data # None)
          /\ cycle' # cycle =>
                 /\ pc = "tick"
                 /\ result # "running"
                 /\ data = None /\ aqi = None /\ point = None]_vars
C17_Witness ==
    pc = "match" /\ cycle = 2 /\ result = "Ok" /\ cycle_writes = 1 /\ nwrites = 2

\* C18: the point handed to the database in a cycle is built from the
\* reading fetched in that cycle and carries compute_aqi of that reading;
\* when do_stuff has returned, also with a failed write, nothing of the
\* reading is kept, so no later cycle can send it again.
C18_NoRetryOfFailedWrites ==
    /\ pc = "wp_write" =>
          /\ fetched_in = cycle
          /\ point = Some(DataPoint(Unwrap(data), compute_aqi(Unwrap(data))))
    /\ pc \in {"match", "tick", "fetch"} =>
          data = None /\ aqi = None /\ point = None
C18_Witness ==
    pc = "wp_write" /\ cycle = 2 /\ prev = "Err_write" /\ fetched_in = 2

====
